---------------------------- MODULE Spec2Model ----------------------------
(* A model of sho-naka/subsidy-grant-api:                                  *)
(*   - api/rate_limiter.py  SimpleSlidingWindow (the sliding-window limiter)*)
(*   - api/utils.py         extract_json_from_text, normalize_and_filter_items *)
(*   - api/index.py         call_openai / search (the request handler)      *)
EXTENDS Integers, Sequences, FiniteSets, TLC

(***************************************************************************)
(* Bounds of the model                                                     *)
(***************************************************************************)
\* number of concurrent callers of allow()
NCallers == 3
\* allow() calls issued in all
MaxCalls == 4
\* largest capacity the limiter is constructed with
MaxPerMin == 2
\* number of times the wall clock advances
MaxTicks == 2
\* longest text, in tokens
MaxLen == 5
\* longest list of raw items
MaxItems == 3
\* largest top_k
MaxTopK == 3

(***************************************************************************)
(* State                                                                   *)
(***************************************************************************)
\* api/rate_limiter.py: SimpleSlidingWindow and its callers
VARIABLES
    per_min,      \* self.per_min
    deque,        \* self.deque: the stored timestamps, oldest first
    lock,         \* self.lock: NoOwner, or the caller holding it
    pc,           \* per caller: its position inside allow()
    now,          \* per caller: the local now
    cutoff,       \* per caller: the local cutoff
    calls,        \* history: number of allow() calls begun
    clock,        \* time.time()
    ticks,        \* number of clock advances so far
    log,          \* history: the calls that returned, in order of return
    inflight_max  \* history: the largest number of calls in flight at once

limVars == <<per_min, deque, lock, pc, now, cutoff, calls, clock, ticks, log, inflight_max>>

\* api/utils.py: extract_json_from_text
VARIABLES
    text,         \* t: the model output
    epc,          \* position inside extract_json_from_text
    start,        \* index of the first '{' or '[' (0: None)
    i,            \* the scan index
    stack,        \* the expected closers, top last
    in_str,       \* inside a double-quoted string
    esc,          \* the previous character was an unescaped backslash
    candidate,    \* the span handed to json.loads by the bracket scan
    result        \* the returned value

exVars == <<text, epc, start, i, stack, in_str, esc, candidate, result>>

\* api/utils.py: normalize_and_filter_items
VARIABLES
    items,        \* items: the raw items
    top_k,        \* top_k
    npc,          \* position inside normalize_and_filter_items
    normalized,   \* normalized
    filtered,     \* filtered
    nres          \* what the call ended with: the returned list, or an exception

normVars == <<items, top_k, npc, normalized, filtered, nres>>

\* api/index.py: the search handler and call_openai
VARIABLES
    api_key,      \* OPENAI_API_KEY is set
    http          \* the response of POST /v1/search

reqVars == <<api_key, http>>

vars == <<limVars, exVars, normVars, reqVars>>
notLimVars == <<exVars, normVars, reqVars>>
notExVars == <<limVars, normVars, reqVars>>
notNormVars == <<limVars, exVars, reqVars>>

(***************************************************************************)
(* api/rate_limiter.py                                                     *)
(***************************************************************************)

Callers == 1..NCallers
NoOwner == 0
window_seconds == 60

\* the amounts by which the wall clock advances between two observations
TickSteps == {window_seconds - 1, window_seconds}

\* threading.Lock: acquirable only when nobody holds it
LockFreeAlways == TRUE
LockFree == lock = NoOwner

\* the end of the with block: the lock is released, on every path out of it
LockKept(c) == c
LockReleased(c) == NoOwner

\* while self.deque and self.deque[0] <= cutoff
ExpiredStrict(ts, cut) == ts < cut
Expired(ts, cut) == ts <= cut
MustPurge(c) == deque # <<>> /\ Expired(Head(deque), cutoff[c])

\* if len(self.deque) < self.per_min
HasRoomOffByOne(d, cap) == Len(d) <= cap
HasRoom(d, cap) == Len(d) < cap

\* remaining = self.per_min - len(self.deque), after the append
RemainingBeforeAppend(d, cap) == cap - (Len(d) - 1)
Remaining(d, cap) == cap - Len(d)

\* the callers inside allow()
InFlight == {c \in Callers : pc[c] # "idle"}

LimInit ==
    /\ per_min \in 1..MaxPerMin
    /\ deque = <<>>
    /\ lock = NoOwner
    /\ pc = [c \in Callers |-> "idle"]
    /\ now = [c \in Callers |-> 0]
    /\ cutoff = [c \in Callers |-> 0]
    /\ calls = 0
    /\ clock = 0
    /\ ticks = 0
    /\ log = <<>>
    /\ inflight_max = 0

\* lines 23-24: now = time.time(); cutoff = now - self.window_seconds
ReadClock(c) ==
    /\ pc[c] = "idle"
    /\ calls < MaxCalls
    /\ now' = [now EXCEPT ![c] = clock]
    /\ cutoff' = [cutoff EXCEPT ![c] = clock - window_seconds]
    /\ calls' = calls + 1
    /\ inflight_max' = IF Cardinality(InFlight) + 1 > inflight_max
                          THEN Cardinality(InFlight) + 1 ELSE inflight_max
    /\ pc' = [pc EXCEPT ![c] = "acquire"]
    /\ UNCHANGED <<per_min, deque, lock, clock, ticks, log, notLimVars>>

\* line 25: with self.lock
Acquire(c) ==
    /\ pc[c] = "acquire"
    /\ LockFree
    /\ lock' = c
    /\ pc' = [pc EXCEPT ![c] = "purge"]
    /\ UNCHANGED <<per_min, deque, now, cutoff, calls, clock, ticks, log, inflight_max, notLimVars>>

\* lines 27-28: one iteration of the purge loop
Purge(c) ==
    /\ pc[c] = "purge"
    /\ MustPurge(c)
    /\ deque' = Tail(deque)
    /\ UNCHANGED <<per_min, lock, pc, now, cutoff, calls, clock, ticks, log, inflight_max, notLimVars>>

\* line 30: the admission check, after the purge loop has ended
Check(c) ==
    /\ pc[c] = "purge"
    /\ ~MustPurge(c)
    /\ pc' = [pc EXCEPT ![c] = IF HasRoom(deque, per_min) THEN "admit" ELSE "reject"]
    /\ UNCHANGED <<per_min, deque, lock, now, cutoff, calls, clock, ticks, log, inflight_max, notLimVars>>

\* lines 31-33: append, compute remaining, return (True, remaining); the with block releases
Admit(c) ==
    /\ pc[c] = "admit"
    /\ deque' = Append(deque, now[c])
    /\ log' = Append(log, [now |-> now[c], permitted |-> TRUE,
                           remaining |-> Remaining(deque', per_min)])
    /\ lock' = LockReleased(c)
    /\ pc' = [pc EXCEPT ![c] = "idle"]
    /\ now' = [now EXCEPT ![c] = 0]
    /\ cutoff' = [cutoff EXCEPT ![c] = 0]
    /\ UNCHANGED <<per_min, calls, clock, ticks, inflight_max, notLimVars>>

\* lines 34-35: return (False, 0); the with block releases
Reject(c) ==
    /\ pc[c] = "reject"
    /\ log' = Append(log, [now |-> now[c], permitted |-> FALSE,
                           remaining |-> 0])
    /\ lock' = LockReleased(c)
    /\ pc' = [pc EXCEPT ![c] = "idle"]
    /\ now' = [now EXCEPT ![c] = 0]
    /\ cutoff' = [cutoff EXCEPT ![c] = 0]
    /\ UNCHANGED <<per_min, deque, calls, clock, ticks, inflight_max, notLimVars>>

\* the wall clock advances
Tick ==
    /\ ticks < MaxTicks
    /\ \E d \in TickSteps : clock' = clock + d
    /\ ticks' = ticks + 1
    /\ UNCHANGED <<per_min, deque, lock, pc, now, cutoff, calls, log, inflight_max, notLimVars>>

LimNext ==
    \/ \E c \in Callers : ReadClock(c)
    \/ \E c \in Callers : Acquire(c)
    \/ \E c \in Callers : Purge(c)
    \/ \E c \in Callers : Check(c)
    \/ \E c \in Callers : Admit(c)
    \/ \E c \in Callers : Reject(c)
    \/ Tick


(***************************************************************************)
(* api/utils.py: extract_json_from_text                                    *)
(*                                                                         *)
(* A text is a sequence of tokens.  Fence stands for the three backticks   *)
(* of a code fence, Digit for a digit, which is also the model's prose     *)
(* character.                                                              *)
(***************************************************************************)

LBrace == "{"
RBrace == "}"
LBrack == "["
RBrack == "]"
Quote == "\""
Backslash == "\\"
Digit == "1"
Fence == "FENCE"

Alphabet == {LBrace, RBrace, LBrack, RBrack, Quote, Backslash, Digit, Fence}
TextsOver(A, n) == UNION {[1..k -> A] : k \in 0..n}

\* results of the extractor
Pending == [kind |-> "pending"]
None == [kind |-> "none"]
Value(v) == [kind |-> "value", val |-> v]

\* ---- json.loads, on token sequences ----
NoVal == [t |-> "none", v |-> <<>>]
ParseFail == [ok |-> FALSE, val |-> NoVal, next |-> 0]
ParseOk(v, n) == [ok |-> TRUE, val |-> v, next |-> n]

\* a string body from position p on; only \" and \\ are escapes of the alphabet
RECURSIVE ParseString(_, _, _)
ParseString(s, p, acc) ==
    IF p > Len(s) THEN ParseFail
    ELSE IF s[p] = Quote THEN ParseOk([t |-> "str", v |-> acc], p + 1)
    ELSE IF s[p] = Backslash
         THEN IF p + 1 <= Len(s) /\ s[p + 1] \in {Quote, Backslash}
              THEN ParseString(s, p + 2, Append(acc, s[p + 1]))
              ELSE ParseFail
    ELSE ParseString(s, p + 1, Append(acc, s[p]))

RECURSIVE ParseNumber(_, _, _)
ParseNumber(s, p, acc) ==
    IF p <= Len(s) /\ s[p] = Digit
    THEN ParseNumber(s, p + 1, Append(acc, Digit))
    ELSE ParseOk([t |-> "num", v |-> acc], p)

RECURSIVE ParseValue(_, _)
ParseValue(s, p) ==
    IF p > Len(s) THEN ParseFail
    ELSE IF s[p] = LBrack
         THEN IF p + 1 <= Len(s) /\ s[p + 1] = RBrack
              THEN ParseOk([t |-> "arr", v |-> <<>>], p + 2)
              ELSE LET e == ParseValue(s, p + 1)
                   IN  IF e.ok /\ e.next <= Len(s) /\ s[e.next] = RBrack
                       THEN ParseOk([t |-> "arr", v |-> <<e.val>>], e.next + 1)
                       ELSE ParseFail
    ELSE IF s[p] = LBrace
         THEN IF p + 1 <= Len(s) /\ s[p + 1] = RBrace
              THEN ParseOk([t |-> "obj", v |-> <<>>], p + 2)
              ELSE ParseFail
    ELSE IF s[p] = Quote THEN ParseString(s, p + 1, <<>>)
    ELSE IF s[p] = Digit THEN ParseNumber(s, p, <<>>)
    ELSE ParseFail

\* json.loads(candidate): the whole sequence must be one JSON value
json_loads(s) ==
    LET r == ParseValue(s, 1)
    IN  IF r.ok /\ r.next = Len(s) + 1 THEN [ok |-> TRUE, val |-> r.val]
        ELSE [ok |-> FALSE, val |-> NoVal]

\* ---- the re.search for a fenced block: first fence, next fence ----
FencePositions(t) == {p \in DOMAIN t : t[p] = Fence}
Min(S) == CHOOSE x \in S : \A y \in S : x <= y
HasFenceMatch(t) == Cardinality(FencePositions(t)) >= 2
FenceOpen(t) == Min(FencePositions(t))
FenceClose(t) == Min(FencePositions(t) \ {FenceOpen(t)})
\* m.group(1).strip()
FenceCandidate(t) == SubSeq(t, FenceOpen(t) + 1, FenceClose(t) - 1)

\* a search for the opener that skips what precedes the opening fence
FirstOpenerPastFence(t) ==
    LET S == {p \in DOMAIN t : t[p] \in {LBrace, LBrack}
                               /\ (HasFenceMatch(t) => p > FenceOpen(t))}
    IN  IF S = {} THEN 0 ELSE Min(S)

\* ---- the first '{' or '[' ----
OpenerPositions(t) == {p \in DOMAIN t : t[p] \in {LBrace, LBrack}}
FirstOpener(t) == IF OpenerPositions(t) = {} THEN 0 ELSE Min(OpenerPositions(t))

\* ---- one iteration of the scan loop, lines 43-61, on st = [stack, in_str, esc] ----
Top(stk) == stk[Len(stk)]
Pop(stk) == SubSeq(stk, 1, Len(stk) - 1)

\* a scan that knows no escapes: every quote inside a string ends it
InStringStepNoEscape(st, ch) ==
    IF ch = Quote THEN [st EXCEPT !.in_str = FALSE] ELSE st

\* lines 44-52
InStringStep(st, ch) ==
    IF st.esc THEN [st EXCEPT !.esc = FALSE]
    ELSE IF ch = Backslash THEN [st EXCEPT !.esc = TRUE]
    ELSE IF ch = Quote THEN [st EXCEPT !.in_str = FALSE]
    ELSE st

\* a scan that lets any closer pop
PopsOnAnyCloser(st, ch) == st.stack # <<>> /\ ch \in {RBrace, RBrack}

\* lines 60-61: a closer pops only when it equals the top of the stack
Pops(st, ch) == st.stack # <<>> /\ ch = Top(st.stack)

\* lines 53-61
OutsideStringStep(st, ch) ==
    IF ch = Quote THEN [st EXCEPT !.in_str = TRUE]
    ELSE IF ch = LBrace THEN [st EXCEPT !.stack = Append(@, RBrace)]
    ELSE IF ch = LBrack THEN [st EXCEPT !.stack = Append(@, RBrack)]
    ELSE IF Pops(st, ch) THEN [st EXCEPT !.stack = Pop(@)]
    ELSE st

ScanCharIgnoringStrings(st, ch) == OutsideStringStep(st, ch)
ScanChar(st, ch) ==
    IF st.in_str THEN InStringStep(st, ch) ELSE OutsideStringStep(st, ch)

\* line 62: the pop that empties the stack ends the scan
ClosesSpanAtAnyPop(st, ch) ==
    LET n == ScanChar(st, ch)
    IN  ~st.in_str /\ ~n.in_str /\ Len(n.stack) < Len(st.stack)
ClosesSpan(st, ch) ==
    LET n == ScanChar(st, ch)
    IN  /\ ~st.in_str /\ ~n.in_str
        /\ Len(n.stack) < Len(st.stack)
        /\ n.stack = <<>>

ScanState == [stack |-> stack, in_str |-> in_str, esc |-> esc]

\* the locals of the extractor before it runs
ExLocalsInit ==
    /\ start = 0
    /\ i = 0
    /\ stack = <<>>
    /\ in_str = FALSE
    /\ esc = FALSE
    /\ candidate = <<>>
    /\ result = Pending

ExInit == epc = "entry" /\ ExLocalsInit

\* lines 17-18: if not t: return None
EmptyCheck ==
    /\ epc = "entry"
    /\ IF text = <<>>
       THEN result' = None /\ epc' = "done"
       ELSE result' = result /\ epc' = "fence"
    /\ UNCHANGED <<text, start, i, stack, in_str, esc, candidate, notExVars>>

\* lines 21-28: a fenced block that decodes is returned; anything else falls through
FenceTry ==
    /\ epc = "fence"
    /\ IF HasFenceMatch(text) /\ json_loads(FenceCandidate(text)).ok
       THEN result' = Value(json_loads(FenceCandidate(text)).val) /\ epc' = "done"
       ELSE result' = result /\ epc' = "find"
    /\ UNCHANGED <<text, start, i, stack, in_str, esc, candidate, notExVars>>

\* lines 31-41
FindStart ==
    /\ epc = "find"
    /\ start' = FirstOpener(text)
    /\ IF FirstOpener(text) = 0
       THEN result' = None /\ epc' = "done" /\ i' = i
       ELSE result' = result /\ epc' = "scan" /\ i' = FirstOpener(text)
    /\ UNCHANGED <<text, stack, in_str, esc, candidate, notExVars>>

\* lines 42-68: one character of the scan
ScanStep ==
    /\ epc = "scan"
    /\ i <= Len(text)
    /\ LET n == ScanChar(ScanState, text[i])
       IN  /\ stack' = n.stack
           /\ in_str' = n.in_str
           /\ esc' = n.esc
           /\ IF ClosesSpan(ScanState, text[i])
              THEN /\ candidate' = SubSeq(text, start, i)
                   /\ result' = IF json_loads(candidate').ok
                                THEN Value(json_loads(candidate').val)
                                ELSE None
                   /\ epc' = "done"
                   /\ i' = i
              ELSE /\ candidate' = candidate
                   /\ result' = result
                   /\ epc' = epc
                   /\ i' = i + 1
    /\ UNCHANGED <<text, start, notExVars>>

\* line 69: the text ended before the stack emptied
ScanEnd ==
    /\ epc = "scan"
    /\ i > Len(text)
    /\ result' = None
    /\ epc' = "done"
    /\ UNCHANGED <<text, start, i, stack, in_str, esc, candidate, notExVars>>

ExNext ==
    \/ EmptyCheck
    \/ FenceTry
    \/ FindStart
    \/ ScanStep
    \/ ScanEnd

(***************************************************************************)
(* api/utils.py: normalize_and_filter_items                                *)
(*                                                                         *)
(* A raw item is a dict: a record over Keys whose value is Absent for a    *)
(* missing key, Null for None, a string (s: a sequence of word tokens), a  *)
(* number (n) or a list (s).  Confidences are in tenths: Num(5) is 0.5.    *)
(***************************************************************************)
Absent == [t |-> "absent", s |-> <<>>, n |-> 0]
Null == [t |-> "null", s |-> <<>>, n |-> 0]
Str(w) == [t |-> "str", s |-> w, n |-> 0]
Num(x) == [t |-> "num", s |-> <<>>, n |-> x]
List(l) == [t |-> "list", s |-> l, n |-> 0]

\* the two tags of schemas.GrantType: "hojokin" (subsidy) and "joseikin" (grant)
SUBSIDY == "hojokin"
GRANT == "joseikin"
GrantType == {Str(<<SUBSIDY>>), Str(<<GRANT>>)}

\* 1.0 and the fallback 0.2, in tenths
ConfidenceMax == 10
FallbackConfidence == 2

\* dict.get(key): None when the key is missing
Get(d, key) == IF d[key].t = "absent" THEN Null ELSE d[key]

\* Python truthiness
Truthy(x) ==
    /\ x.t \notin {"absent", "null"}
    /\ x.t = "str" => x.s # <<>>
    /\ x.t = "num" => x.n # 0
    /\ x.t = "list" => x.s # <<>>

\* a or b
Or(a, b) == IF Truthy(a) THEN a ELSE b

\* str.lower(), token by token
LowerToken(w) == IF w = "IT" THEN "it" ELSE IF w = "Plan" THEN "plan" ELSE w
Lower(w) == [p \in DOMAIN w |-> LowerToken(w[p])]

\* token in title
Contains(w, tok) == \E p \in DOMAIN w : w[p] = tok

\* float(s) of a string: the numerals of the model parse, anything else raises
FloatOfString(w) ==
    IF w = <<"0.5">> THEN [ok |-> TRUE, val |-> 5]
    ELSE IF w = <<"0">> THEN [ok |-> TRUE, val |-> 0]
    ELSE [ok |-> FALSE, val |-> 0]

\* float(x): numbers and numeric strings convert, anything else raises
Float(x) ==
    IF x.t = "num" THEN [ok |-> TRUE, val |-> x.n]
    ELSE IF x.t = "str" THEN FloatOfString(x.s)
    ELSE [ok |-> FALSE, val |-> 0]

\* lines 84-92: the raw grant_type when truthy, else inferred from the title
InferredFromTitle(d) ==
    LET title == Lower(Or(Get(d, "title"), Str(<<>>)).s)
    IN  IF Contains(title, SUBSIDY) THEN Str(<<SUBSIDY>>)
        ELSE IF Contains(title, GRANT) THEN Str(<<GRANT>>)
        ELSE Str(<<SUBSIDY>>)

grant_type_of(d) ==
    IF Truthy(Get(d, "grant_type")) THEN Get(d, "grant_type") ELSE InferredFromTitle(d)

\* line 105: float(...) if the value is not None, else 0.0; float may raise
ConfidenceCoerced(d) ==
    IF Get(d, "confidence").t = "null" THEN [ok |-> TRUE, val |-> 0]
    ELSE Float(Get(d, "confidence"))

\* lines 82-108: normalize_item; ok is FALSE when it raises
normalize_item(d) ==
    [ok |-> ConfidenceCoerced(d).ok,
     rec |-> [title |-> Or(Or(Get(d, "title"), Get(d, "name")), Str(<<>>)),
              summary |-> Or(Or(Get(d, "summary"), Get(d, "description")), Str(<<>>)),
              source_url |-> Or(Or(Or(Get(d, "source_url"), Get(d, "url")),
                                   Get(d, "link")), Str(<<>>)),
              grant_type |-> grant_type_of(d),
              deadline |-> Get(d, "deadline"),
              amount_max |-> Get(d, "amount_max"),
              rate_max |-> Get(d, "rate_max"),
              area |-> Get(d, "area"),
              municipality |-> Get(d, "municipality"),
              industry |-> Get(d, "industry"),
              confidence |-> Num(ConfidenceCoerced(d).val),
              reasons |-> Or(Get(d, "reasons"), List(<<>>))]]

\* line 112: normalized[:top_k], for top_k >= 1
TruncatedNot(l, k) == l
Truncated(l, k) == SubSeq(l, 1, IF k < Len(l) THEN k ELSE Len(l))

\* line 115: it.get("source_url")
HasSourceUrl(r) == Truthy(r.source_url)

\* lines 115-117: drop the records without source_url, unless that drops them all
Filtered(l) ==
    IF SelectSeq(l, HasSourceUrl) = <<>> THEN l ELSE SelectSeq(l, HasSourceUrl)

\* lines 121-126: a confidence equal to 0.0 becomes 0.2
Fallback(r) ==
    LET c == IF Float(r.confidence).ok THEN Float(r.confidence).val ELSE 0
    IN  IF c = 0 THEN [r EXCEPT !.confidence = Num(FallbackConfidence)] ELSE r

\* the outcomes of the call
Running == [status |-> "running", items |-> <<>>]
Raised == [status |-> "raised", items |-> <<>>]
Returned(l) == [status |-> "returned", items |-> l]

NormInit ==
    /\ npc = "normalize"
    /\ normalized = <<>>
    /\ filtered = <<>>
    /\ nres = Running

\* line 111: normalize every raw item; an exception of normalize_item propagates
NormalizeAll ==
    /\ npc = "normalize"
    /\ IF \A p \in DOMAIN items : normalize_item(items[p]).ok
       THEN /\ normalized' = [p \in DOMAIN items |-> normalize_item(items[p]).rec]
            /\ npc' = "truncate"
            /\ nres' = nres
       ELSE /\ normalized' = normalized
            /\ npc' = "done"
            /\ nres' = Raised
    /\ UNCHANGED <<items, top_k, filtered, notNormVars>>

\* line 112
Truncate ==
    /\ npc = "truncate"
    /\ normalized' = Truncated(normalized, top_k)
    /\ npc' = "filter"
    /\ UNCHANGED <<items, top_k, filtered, nres, notNormVars>>

\* lines 115-117
Filter ==
    /\ npc = "filter"
    /\ filtered' = Filtered(normalized)
    /\ npc' = "fallback"
    /\ UNCHANGED <<items, top_k, normalized, nres, notNormVars>>

\* lines 120-128: the fallback loop, then return filtered
FallbackAndReturn ==
    /\ npc = "fallback"
    /\ filtered' = [p \in DOMAIN filtered |-> Fallback(filtered[p])]
    /\ nres' = Returned(filtered')
    /\ npc' = "done"
    /\ UNCHANGED <<items, top_k, normalized, notNormVars>>

NormNext ==
    \/ NormalizeAll
    \/ Truncate
    \/ Filter
    \/ FallbackAndReturn

\* ---- the raw items of the model ----
Keys == {"title", "name", "summary", "description", "source_url", "url", "link",
         "grant_type", "deadline", "amount_max", "rate_max", "area",
         "municipality", "industry", "confidence", "reasons"}

\* an item as the prompt asks for it: title, source_url and a confidence of 0.5
BaseItem ==
    [key \in Keys |->
        IF key = "title" THEN Str(<<"Plan">>)
        ELSE IF key = "source_url" THEN Str(<<"https://a">>)
        ELSE IF key = "confidence" THEN Num(5)
        ELSE Absent]

With(d, key, x) == [d EXCEPT ![key] = x]

TitleValues == {Null, Str(<<"IT", SUBSIDY>>), Str(<<GRANT>>)}
GrantTypeValues == {Null, Str(<<GRANT>>), Str(<<"loan">>)}
ConfidenceValues == {Absent, Null, Num(0), Num(0 - 5), Num(15),
                     Str(<<"0.5">>), Str(<<"high">>)}

\* the base item, and the items that differ from it in one respect
RawItems ==
    {BaseItem}
    \cup {With(BaseItem, "title", x) : x \in TitleValues}
    \cup {With(With(BaseItem, "title", Absent), "name", Str(<<"Name">>))}
    \cup {With(BaseItem, "grant_type", x) : x \in GrantTypeValues}
    \cup {With(BaseItem, "confidence", x) : x \in ConfidenceValues}
    \cup {With(BaseItem, "source_url", Absent)}
    \cup {With(With(BaseItem, "source_url", Absent), "url", Str(<<"https://b">>))}
    \cup {With(With(BaseItem, "source_url", Str(<<>>)), "link", Str(<<"https://c">>))}

RawLists == UNION {[1..n -> RawItems] : n \in 0..MaxItems}

(***************************************************************************)
(* api/index.py: search and call_openai                                    *)
(*                                                                         *)
(* call_openai carries its own copy of the extractor (lines 183-231, the   *)
(* same algorithm without the empty-text test, which line 178 makes) and   *)
(* of the normalizer (lines 248-291).                                      *)
(***************************************************************************)
\* tokens of the upstream text: a "no matching results" phrase, and a bare URL
NO_MATCH == "NO_MATCH"
URL == "URL"
ReqAlphabet == {LBrace, RBrace, LBrack, RBrack, Digit, NO_MATCH, URL}

NoResponse == [status |-> 0, detail |-> "", items |-> <<>>]
\* raise HTTPException(status_code, detail), or an unhandled exception (500)
HttpError(code, why) == [status |-> code, detail |-> why, items |-> <<>>]
\* SearchResponse(items=...)
HttpOk(l) == [status |-> 200, detail |-> "", items |-> l]

\* lines 248-273: the inline normalize_item; title defaults to "" only when the
\* key is missing, so lower() raises on a null title
TitleForInference(d) == IF d["title"].t = "absent" THEN Str(<<>>) ELSE d["title"]
normalize_item_inline(d) ==
    [ok |-> /\ ConfidenceCoerced(d).ok
            /\ (Truthy(Get(d, "grant_type")) \/ TitleForInference(d).t = "str"),
     rec |-> normalize_item(d).rec]

\* lines 275-291: normalize, truncate, filter, fallback
InlineRaises(l) == \E p \in DOMAIN l : ~normalize_item_inline(l[p]).ok
InlinePipeline(l, k) ==
    LET f == Filtered(Truncated([p \in DOMAIN l |-> normalize_item_inline(l[p]).rec], k))
    IN  [p \in DOMAIN f |-> Fallback(f[p])]

\* line 303: GrantItem(**i)
ValidGrantItem(r) ==
    /\ r.title.t = "str" /\ r.summary.t = "str" /\ r.source_url.t = "str"
    /\ r.grant_type.t = "str"
    /\ r.confidence.t = "num"
    /\ r.reasons.t = "list"

\* a decoded object as a raw item: the objects of the token alphabet are empty
EmptyDict == [key \in Keys |-> Absent]
IsDict(x) == x.t = "obj"

ReqInit ==
    /\ api_key \in BOOLEAN
    /\ http = NoResponse

\* lines 136-137
KeyMissing ==
    /\ epc = "search"
    /\ ~api_key
    /\ http' = HttpError(500, "OPENAI_API_KEY is not set")
    /\ epc' = "responded"
    /\ UNCHANGED <<api_key, text, start, i, stack, in_str, esc, candidate, result,
                   limVars, normVars>>

\* lines 151-156: the upstream call raises
UpstreamFails ==
    /\ epc = "search"
    /\ api_key
    /\ http' = HttpError(502, "OpenAI call failed")
    /\ epc' = "responded"
    /\ UNCHANGED <<api_key, text, start, i, stack, in_str, esc, candidate, result,
                   limVars, normVars>>

\* lines 152-180: the upstream call returns a text; an empty one is an error
UpstreamReturns ==
    /\ epc = "search"
    /\ api_key
    /\ \E t \in TextsOver(ReqAlphabet, MaxLen) :
          /\ text' = t
          /\ IF t = <<>>
             THEN http' = HttpError(502, "OpenAI returned no text output")
                  /\ epc' = "responded"
             ELSE http' = http /\ epc' = "fence"
    /\ UNCHANGED <<api_key, start, i, stack, in_str, esc, candidate, result,
                   limVars, normVars>>

\* lines 233-245: no JSON is an error; a list, or the items of an object, go on
ResolveShape ==
    /\ epc = "done"
    /\ IF result = None
       THEN http' = HttpError(502, "Model did not return valid JSON")
            /\ epc' = "responded"
       ELSE IF result.val.t = "arr"
       THEN http' = http /\ epc' = "inline"
       ELSE http' = HttpError(502, "Unexpected OpenAI response (no items)")
            /\ epc' = "responded"
    /\ UNCHANGED <<api_key, text, start, i, stack, in_str, esc, candidate, result,
                   limVars, normVars>>

\* lines 247-291 and 301-304: normalize the list, validate, respond
NormalizeAndRespond ==
    /\ epc = "inline"
    /\ LET l == result.val.v
           dicts == [p \in DOMAIN l |-> EmptyDict]
       IN  IF (\E p \in DOMAIN l : ~IsDict(l[p])) \/ InlineRaises(dicts)
           THEN http' = HttpError(500, "Internal Server Error")
           ELSE IF \E p \in DOMAIN InlinePipeline(dicts, top_k) :
                      ~ValidGrantItem(InlinePipeline(dicts, top_k)[p])
           THEN http' = HttpError(500, "Internal Server Error")
           ELSE http' = HttpOk(InlinePipeline(dicts, top_k))
    /\ epc' = "responded"
    /\ UNCHANGED <<api_key, text, start, i, stack, in_str, esc, candidate, result,
                   limVars, normVars>>

ReqNext ==
    \/ KeyMissing
    \/ UpstreamFails
    \/ UpstreamReturns
    \/ FenceTry
    \/ FindStart
    \/ ScanStep
    \/ ScanEnd
    \/ ResolveShape
    \/ NormalizeAndRespond

(***************************************************************************)
(* Specifications                                                          *)
(***************************************************************************)
\* a limiter nobody calls
LimIdle == LimInit /\ per_min = 1

\* an extractor nobody calls
ExIdle == ExInit /\ text = <<>>

\* a normalizer nobody calls
NormIdle == NormInit /\ items = <<>> /\ top_k = 1

\* a handler nobody calls
ReqIdle == ReqInit /\ api_key = TRUE

\* the limiter under concurrent callers
LimiterInit == LimInit /\ ExIdle /\ NormIdle /\ ReqIdle
SpecLimiter == LimiterInit /\ [][LimNext]_vars

\* the scheduler: a free lock that is waited for is taken by some waiter, and
\* the thread holding the lock keeps running
LimFairness ==
    /\ WF_vars(\E c \in Callers : Acquire(c))
    /\ WF_vars(\E c \in Callers : Purge(c))
    /\ WF_vars(\E c \in Callers : Check(c))
    /\ WF_vars(\E c \in Callers : Admit(c))
    /\ WF_vars(\E c \in Callers : Reject(c))
SpecLimiterFair == LimiterInit /\ [][LimNext]_vars /\ LimFairness

\* extract_json_from_text on every text of at most MaxLen tokens
ExtractInit == LimIdle /\ NormIdle /\ ReqIdle /\ ExInit /\ text \in TextsOver(Alphabet, MaxLen)
SpecExtract == ExtractInit /\ [][ExNext]_vars

\* normalize_and_filter_items on every list of at most MaxItems raw items
NormalizeInit ==
    /\ LimIdle /\ ExIdle /\ ReqIdle /\ NormInit
    /\ items \in RawLists
    /\ top_k \in 1..MaxTopK
SpecNormalize == NormalizeInit /\ [][NormNext]_vars

\* one POST /v1/search, for every upstream text of at most MaxLen tokens
RequestInit ==
    /\ LimIdle /\ ReqInit
    /\ NormInit /\ items = <<>> /\ top_k \in 1..MaxTopK
    /\ epc = "search" /\ ExLocalsInit /\ text = <<>>
SpecRequest == RequestInit /\ [][ReqNext]_vars

(***************************************************************************)
(* Claims about the limiter                                                *)
(***************************************************************************)
LogIdx == DOMAIN log
Admitted == Cardinality({e \in LogIdx : log[e].permitted})
Rejected == Cardinality({e \in LogIdx : ~log[e].permitted})
AllReturned == InFlight = {} /\ Len(log) = calls
\* the now of every call begun so far, returned or in flight
NowsBegun == {log[e].now : e \in LogIdx} \cup {now[c] : c \in InFlight}
OneWindow == \A a, b \in NowsBegun : a - b < window_seconds

\* C1: when all the calls begun so far against the initially empty limiter of
\* capacity K fall inside one window, at most K of them are admitted, under
\* every interleaving; and once N > K such calls have all returned (in
\* particular N concurrent callers issuing one call each), exactly K returned
\* permitted = true and exactly N - K returned permitted = false.
C1_ExactlyKAdmitted ==
    OneWindow =>
        /\ Admitted <= per_min
        /\ (AllReturned /\ calls > per_min) =>
               (Admitted = per_min /\ Rejected = calls - per_min)

\* every caller was inside allow() at the same time, issued exactly one call,
\* all have returned, and there were more callers than capacity
C1_Witness ==
    /\ OneWindow /\ AllReturned
    /\ calls = NCallers /\ inflight_max = NCallers
    /\ NCallers > per_min
    /\ Admitted = per_min /\ Rejected = NCallers - per_min

\* the calls up to the k-th all lie inside the window that opens at the first call
InFirstWindow(k) == \A j \in 1..k : log[j].now - log[1].now < window_seconds

\* C2: in a sequential run from the empty limiter of capacity N, the k-th call
\* inside one window returns (true, N - k) for k <= N and (false, 0) for
\* k > N; and the first call made after time has advanced past the window
\* measured from the earliest admitted call returns permitted = true.
C2_SequentialWindow ==
    inflight_max <= 1 =>
        \A k \in LogIdx :
            /\ InFirstWindow(k) =>
                  IF k <= per_min
                  THEN log[k].permitted /\ log[k].remaining = per_min - k
                  ELSE ~log[k].permitted /\ log[k].remaining = 0
            /\ (k > 1 /\ InFirstWindow(k - 1)
                   /\ log[k].now - log[1].now > window_seconds) => log[k].permitted

\* capacity 2: two admissions (remaining 1, 0), a rejection, then an admission
\* after the window has passed
C2_Witness ==
    /\ inflight_max = 1 /\ per_min = 2 /\ Len(log) = 4
    /\ InFirstWindow(3)
    /\ log[1].remaining = 1 /\ log[2].remaining = 0
    /\ ~log[3].permitted
    /\ log[4].now - log[1].now > window_seconds /\ log[4].permitted

\* C14: under fair scheduling every call to allow() returns: a caller inside
\* allow() is eventually outside it again and does not hold the lock, whether
\* it was admitted or rejected, and every position it passes through is one
\* of the positions of allow().
C14_EveryCallReturns ==
    /\ \A c \in Callers : (pc[c] # "idle") ~> (pc[c] = "idle" /\ lock # c)
    /\ [](\A c \in Callers :
              pc[c] \in {"idle", "acquire", "purge", "admit", "reject"})
    /\ [](InFlight = {} => (lock = NoOwner /\ Len(log) = calls))

\* every caller was inside allow() at once, every call of the budget was made
\* and has returned, some admitted and some rejected, and the lock is free
C14_Witness ==
    /\ AllReturned /\ calls = MaxCalls /\ inflight_max = NCallers
    /\ lock = NoOwner
    /\ Admitted > 0 /\ Rejected > 0

\* the caller c is at its admission check: it holds the lock and its purge has ended
AtCheck(c) == pc[c] = "purge" /\ ~MustPurge(c)
Sorted(d) == \A p, q \in DOMAIN d : p < q => d[p] <= d[q]

\* C15: when a call performs its admission check, no stored timestamp is older
\* than that call's now - 60 and the stored timestamps are in non-decreasing
\* order, under every interleaving.
C15_StoredTimestampsFreshAndOrdered ==
    \A c \in Callers :
        AtCheck(c) =>
            /\ \A p \in DOMAIN deque : deque[p] >= now[c] - window_seconds
            /\ Sorted(deque)

\* the admitted calls whose recorded timestamp lies in (t - 60, t]
AdmittedIn(t) ==
    {e \in LogIdx : log[e].permitted /\ log[e].now > t - window_seconds
                                     /\ log[e].now <= t}

\* C18: for every time t, at most per_min admitted calls have their recorded
\* timestamp in (t - 60, t].  (The count is largest at a t that is itself a
\* recorded timestamp.)
C18_AtMostCapacityPerWindow ==
    \A e \in LogIdx : Cardinality(AdmittedIn(log[e].now)) <= per_min

\* C19: the number of stored timestamps is between 0 and the capacity, and
\* no step of allow() changes the capacity.
C19_StoredCountWithinCapacity ==
    /\ [](Len(deque) >= 0 /\ Len(deque) <= per_min)
    /\ [][per_min' = per_min]_vars

\* the limiter is full and has turned a call away
C19_Witness ==
    /\ per_min = MaxPerMin /\ Len(deque) = per_min
    /\ Rejected > 0 /\ InFlight = {}

(***************************************************************************)
(* Claims about the extractor                                              *)
(***************************************************************************)
Openers == {LBrace, LBrack}
Closers == {RBrace, RBrack}

\* the spans of t that start at an opening bracket or brace and decode as JSON
JsonSpans(t) ==
    {sp \in (DOMAIN t) \X (DOMAIN t) :
        /\ sp[1] <= sp[2]
        /\ t[sp[1]] \in Openers
        /\ json_loads(SubSeq(t, sp[1], sp[2])).ok}
\* those that lie inside no other one
TopLevelSpans(t) ==
    {sp \in JsonSpans(t) :
        ~\E o \in JsonSpans(t) : o # sp /\ o[1] <= sp[1] /\ sp[2] <= o[2]}
TheSpan(t) == CHOOSE sp \in TopLevelSpans(t) : TRUE
Decoded(t, sp) == Value(json_loads(SubSeq(t, sp[1], sp[2])).val)

\* C9, as claimed: for every text with no fenced region and exactly one
\* balanced top-level JSON value, whatever prose surrounds it (stray brackets,
\* braces and quotes included), the extraction returns the decoding of that value.
C9_AnyProseAround ==
    (epc = "done" /\ ~HasFenceMatch(text) /\ Cardinality(TopLevelSpans(text)) = 1)
        => result = Decoded(text, TheSpan(text))

\* C9, amended: for every text with no fenced region in which the first '{' or
\* '[' begins a balanced JSON value (the prose before it holds no opening
\* bracket or brace, but may hold closers and quotes; the prose after it may
\* hold anything), the extraction returns the decoding of that value.
C9_FirstOpenerValueDecoded ==
    (epc = "done" /\ ~HasFenceMatch(text))
        => \A sp \in JsonSpans(text) :
              sp[1] = FirstOpener(text) => result = Decoded(text, sp)

\* a value found between a stray closer or quote and trailing prose
C9_Witness ==
    /\ epc = "done" /\ ~HasFenceMatch(text)
    /\ start > 1 /\ text[1] \in Closers \cup {Quote}
    /\ start + Len(candidate) - 1 < Len(text)
    /\ <<start, start + Len(candidate) - 1>> \in JsonSpans(text)
    /\ result = Value(json_loads(candidate).val)

\* C10: while the scan is inside a double-quoted string, a '{', '[', '}' or ']'
\* leaves the closer stack as it is and no character ends the scan, so no
\* returned span ends inside a string.
C10_BracketsInertInString ==
    [][(epc = "scan" /\ i <= Len(text) /\ in_str)
          => /\ epc' = "scan"
             /\ candidate' = candidate
             /\ text[i] \in Openers \cup Closers => stack' = stack]_vars

\* the span ["]"] was returned whole: the ']' inside the string did not end it
C10_Witness ==
    /\ epc = "done"
    /\ candidate = <<LBrack, Quote, RBrack, Quote, RBrack>>
    /\ result = Value([t |-> "arr", v |-> <<[t |-> "str", v |-> <<RBrack>>]>>])

\* C11: inside a string, the character after an unescaped backslash never ends
\* the string, a quote included, and the escape flag is cleared after that one
\* character; a quote met with the flag clear ends the string, so a quote after
\* two backslashes does.  The flag is set by an unescaped backslash only.
C11_EscapeCoversOneCharacter ==
    [][(epc = "scan" /\ i <= Len(text) /\ in_str)
          => /\ esc => (in_str' /\ ~esc')
             /\ (~esc /\ text[i] = Quote) => ~in_str'
             /\ esc' <=> (~esc /\ text[i] = Backslash)]_vars

\* the scan has passed [ " \ " and is still inside the string
C11_Witness ==
    /\ epc = "scan" /\ start = 1 /\ i = 5
    /\ SubSeq(text, 1, 4) = <<LBrack, Quote, Backslash, Quote>>
    /\ in_str /\ ~esc

\* ---- the bracket scan as a function of the text ----
\* the scan state after the characters s..p of t
RECURSIVE StateAfter(_, _, _)
StateAfter(t, s, p) ==
    IF p < s THEN [stack |-> <<>>, in_str |-> FALSE, esc |-> FALSE]
    ELSE ScanChar(StateAfter(t, s, p - 1), t[p])
\* the first '{' or '[' of the whole text (0: none)
WholeTextStart(t) ==
    IF \E p \in DOMAIN t : t[p] \in Openers
    THEN CHOOSE p \in DOMAIN t :
            t[p] \in Openers /\ \A q \in 1..(p - 1) : t[q] \notin Openers
    ELSE 0
\* the indices at which the closer stack is empty, scanning from s
EmptyStackAt(t, s) == {p \in s..Len(t) : StateAfter(t, s, p).stack = <<>>}
FirstClosure(t, s) ==
    CHOOSE p \in EmptyStackAt(t, s) : \A q \in EmptyStackAt(t, s) : p <= q
DecodeOrNone(c) == IF json_loads(c).ok THEN Value(json_loads(c).val) ELSE None
\* what the bracket scan gives on the whole text
BracketScan(t) ==
    IF WholeTextStart(t) = 0 \/ EmptyStackAt(t, WholeTextStart(t)) = {} THEN None
    ELSE DecodeOrNone(SubSeq(t, WholeTextStart(t), FirstClosure(t, WholeTextStart(t))))

FenceFailed(t) == HasFenceMatch(t) /\ ~json_loads(FenceCandidate(t)).ok

\* C12: when a fenced region is found and its inner block does not decode, the
\* extraction does not fail there: it returns what the bracket scan gives on
\* the whole text, started at the first '{' or '[' of the whole text.
C12_FenceFailureFallsThrough ==
    (epc = "done" /\ FenceFailed(text)) => result = BracketScan(text)

\* a value that stands before a fenced region that does not decode
C12_Witness ==
    /\ epc = "done" /\ FenceFailed(text)
    /\ start # 0 /\ start < FenceOpen(text)
    /\ result.kind = "value"

\* C16: the bracket scan stops at the first index at which the closer stack
\* becomes empty: the candidate is the text from the first '{' or '[' through
\* that index, the result is the decoding of that candidate alone (failure
\* when it does not decode), and the scan reads nothing after that index.
C16_StopsAtFirstClosure ==
    (epc = "done" /\ start # 0) =>
        IF EmptyStackAt(text, start) = {}
        THEN result = None /\ candidate = <<>> /\ i = Len(text) + 1
        ELSE /\ i = FirstClosure(text, start)
             /\ candidate = SubSeq(text, start, i)
             /\ result = DecodeOrNone(candidate)

\* the candidate { 1 } does not decode and the call fails, although a value follows
C16_Witness ==
    /\ epc = "done" /\ start = 1 /\ Len(text) = 5
    /\ candidate = <<LBrace, Digit, RBrace>>
    /\ SubSeq(text, 4, 5) = <<LBrack, RBrack>>
    /\ result = None

\* C17: outside strings, a '}' or ']' that differs from the closer on top of
\* the stack (or meets an empty stack) changes neither the stack nor the two
\* flags and does not end the scan; a closer pops only the top element equal to it.
C17_MismatchedCloserIgnored ==
    [][(epc = "scan" /\ i <= Len(text) /\ ~in_str /\ text[i] \in Closers)
          => IF stack = <<>> \/ text[i] # Top(stack)
             THEN /\ stack' = stack /\ in_str' = in_str /\ esc' = esc
                  /\ epc' = "scan"
             ELSE stack' = Pop(stack)]_vars

\* the scan has passed [ } and still waits for the ']'
C17_Witness ==
    /\ epc = "scan" /\ start = 1 /\ i = 3
    /\ text[1] = LBrack /\ text[2] = RBrace
    /\ stack = <<RBrack>> /\ ~in_str

(***************************************************************************)
(* Claims about the request                                                *)
(***************************************************************************)
\* the raw text holds a "no matches" phrase or a bare URL
HasNoResultSignal(t) == \E p \in DOMAIN t : t[p] \in {NO_MATCH, URL}

\* C3: when the extraction fails, the request ends as a successful response
\* with no records if the raw text holds a "no matches" phrase or a bare URL,
\* and as a failure only if it holds neither.
C3_LegitimateEmptyIsSuccess ==
    (epc = "responded" /\ result = None) =>
        IF HasNoResultSignal(text)
        THEN http.status = 200 /\ http.items = <<>>
        ELSE http.status # 200

\* the request has made its upstream text-generation call
UpstreamCalled ==
    /\ epc # "search"
    /\ http # HttpError(500, "OPENAI_API_KEY is not set")

\* C13: in every execution of the search handler, the upstream call is
\* preceded, within the request, by a call of allow() that returned
\* permitted = true.
C13_UpstreamGatedByLimiter ==
    UpstreamCalled => \E e \in LogIdx : log[e].permitted

(***************************************************************************)
(* Claims about the normalizer                                             *)
(***************************************************************************)
Out == nres.items
\* the number of raw items that survive the truncation
Kept == IF top_k < Len(items) THEN top_k ELSE Len(items)
\* the normalization of the raw item at position p
NormalizedAt(p) == normalize_item(items[p]).rec

\* C4: every returned record has a confidence in (0, 1], whatever confidence
\* the raw item carried.
C4_ConfidenceInUnitInterval ==
    nres.status = "returned" =>
        \A p \in DOMAIN Out :
            Out[p].confidence.n > 0 /\ Out[p].confidence.n <= ConfidenceMax

\* C5: the returned list is an order-preserving subsequence of the
\* normalizations (after the confidence fallback) of the first top_k raw
\* items: at most top_k records, none from a position beyond top_k, in input order.
C5_OrderedSubsequenceOfFirstK ==
    nres.status = "returned" =>
        /\ Len(Out) <= top_k
        /\ \E f \in [DOMAIN Out -> 1..Kept] :
              /\ \A p, q \in DOMAIN Out : p < q => f[p] < f[q]
              /\ \A p \in DOMAIN Out : Out[p] = Fallback(NormalizedAt(f[p]))

\* top_k = 2 of three items: the first lacks a source_url and is dropped, the
\* third has one and still does not fill the quota
C5_Witness ==
    /\ nres.status = "returned"
    /\ Len(items) = 3 /\ top_k = 2
    /\ ~HasSourceUrl(NormalizedAt(1))
    /\ HasSourceUrl(NormalizedAt(2)) /\ HasSourceUrl(NormalizedAt(3))
    /\ NormalizedAt(3) # NormalizedAt(2)
    /\ Out = <<Fallback(NormalizedAt(2))>>

\* C6: the call returns, of the first top_k normalized items, all of them when
\* none has a source_url and else exactly those that have one, in order; so the
\* returned list is empty only for an empty input.
C6_FilterOverride ==
    npc = "done" =>
        LET firsts == [p \in 1..Kept |-> Fallback(NormalizedAt(p))]
        IN  /\ nres.status = "returned"
            /\ Out = IF \A p \in 1..Kept : ~HasSourceUrl(firsts[p])
                     THEN firsts
                     ELSE SelectSeq(firsts, HasSourceUrl)
            /\ Out = <<>> => items = <<>>

\* an item's confidence is present and float() cannot convert it
Unparsable(d) == Get(d, "confidence").t # "null" /\ ~Float(Get(d, "confidence")).ok

\* C7: an item whose confidence cannot be parsed never aborts the call: the
\* call returns, and that item's confidence counts as 0.0 and becomes 0.2.
C7_UnparsableConfidenceRecovered ==
    (npc = "done" /\ \E p \in DOMAIN items : Unparsable(items[p])) =>
        /\ nres.status = "returned"
        /\ \A p \in 1..Kept :
              Unparsable(items[p]) =>
                  Fallback(NormalizedAt(p)).confidence = Num(FallbackConfidence)

\* C8: every returned record has one of the two tags of GrantType as its
\* grant_type, also when the raw item supplied a grant_type of its own.
C8_GrantTypeEnumerated ==
    nres.status = "returned" =>
        \A p \in DOMAIN Out : Out[p].grant_type \in GrantType

\* C20: the pipeline written inline in call_openai and
\* normalize_and_filter_items have the same outcome on every list of raw items
\* and every top_k: both raise, or both return the same records.
C20_InlineEquivalent ==
    npc = "done" =>
        IF InlineRaises(items)
        THEN nres.status = "raised"
        ELSE nres.status = "returned" /\ Out = InlinePipeline(items, top_k)

=============================================================================
